---- MODULE Spec2Model ----
(***************************************************************************)
(* Model of the configurator package (illyabusigin/configurator): a        *)
(* struct-tag driven configuration loader on top of viper and pflag.       *)
(*                                                                         *)
(* Texts (Go strings that are parsed or assigned) are sequences of         *)
(* one-character strings; names (field names, tag names, keys) are plain   *)
(* strings.  Field values and resolved values are tagged records.          *)
(***************************************************************************)
EXTENDS Integers, Sequences, FiniteSets, TLC

(***************************************************************************)
(* Bounds of the model.                                                    *)
(***************************************************************************)
\* number of Load calls in one behaviour
MaxLoads == 2
\* number of caller-side preparations (Setenv, config file write, field
\* assignment, flag set) in one behaviour
MaxSetup == 2

(***************************************************************************)
(* Texts.                                                                  *)
(***************************************************************************)
Digits == {"0", "1", "2", "3", "4", "5", "6", "7", "8", "9"}

DigitVal(c) ==
    CASE c = "0" -> 0 [] c = "1" -> 1 [] c = "2" -> 2 [] c = "3" -> 3
      [] c = "4" -> 4 [] c = "5" -> 5 [] c = "6" -> 6 [] c = "7" -> 7
      [] c = "8" -> 8 [] c = "9" -> 9

DigitChar(d) ==
    CASE d = 0 -> "0" [] d = 1 -> "1" [] d = 2 -> "2" [] d = 3 -> "3"
      [] d = 4 -> "4" [] d = 5 -> "5" [] d = 6 -> "6" [] d = 7 -> "7"
      [] d = 8 -> "8" [] d = 9 -> "9"

AllDigits(s) == \A i \in 1..Len(s) : s[i] \in Digits

RECURSIVE DigitsToNat(_)
DigitsToNat(s) ==
    IF s = <<>> THEN 0
    ELSE 10 * DigitsToNat(SubSeq(s, 1, Len(s) - 1)) + DigitVal(s[Len(s)])

RECURSIVE NatToDigits(_)
NatToDigits(n) ==
    IF n < 10 THEN <<DigitChar(n)>>
    ELSE NatToDigits(n \div 10) \o <<DigitChar(n % 10)>>

RECURSIVE Pow10(_)
Pow10(k) == IF k = 0 THEN 1 ELSE 10 * Pow10(k - 1)

\* the texts the model writes out
TxtEmpty == <<>>
TxtOne == <<"1">>
TxtZero == <<"0">>
Txt7 == <<"7">>
Txt300 == <<"3", "0", "0">>
Txt3306 == <<"3", "3", "0", "6">>
TxtNeg3 == <<"-", "3">>
TxtAbc == <<"a", "b", "c">>
TxtDev == <<"d", "e", "v">>
TxtProd == <<"p", "r", "o", "d">>
TxtTrue == <<"t", "r", "u", "e">>
TxtFalse == <<"f", "a", "l", "s", "e">>
Txt1p5 == <<"1", ".", "5">>

(***************************************************************************)
(* strconv: the conversions populateStructField calls.  Each returns       *)
(* [ok, v]; ok = FALSE is the non-nil error.                               *)
(***************************************************************************)
ParseResult(ok, v) == [ok |-> ok, v |-> v]

\* strconv.ParseBool
ParseBool(s) ==
    IF s \in {<<"1">>, <<"t">>, <<"T">>, <<"T", "R", "U", "E">>,
              <<"t", "r", "u", "e">>, <<"T", "r", "u", "e">>}
    THEN ParseResult(TRUE, 1)
    ELSE IF s \in {<<"0">>, <<"f">>, <<"F">>, <<"F", "A", "L", "S", "E">>,
                   <<"f", "a", "l", "s", "e">>, <<"F", "a", "l", "s", "e">>}
    THEN ParseResult(TRUE, 0)
    ELSE ParseResult(FALSE, 0)

\* strconv.ParseUint(s, 10, 64): digits only, no sign (the texts of the
\* model are short, so the 64-bit range check never fails)
ParseUint(s) ==
    IF s # <<>> /\ AllDigits(s)
    THEN ParseResult(TRUE, DigitsToNat(s))
    ELSE ParseResult(FALSE, 0)

\* strconv.ParseInt(s, 10, 64): optional sign, then ParseUint
ParseInt(s) ==
    IF s = <<>> THEN ParseResult(FALSE, 0)
    ELSE LET neg == s[1] = "-"
             body == IF s[1] \in {"+", "-"} THEN Tail(s) ELSE s
             u == ParseUint(body)
         IN IF u.ok THEN ParseResult(TRUE, IF neg THEN 0 - u.v ELSE u.v)
            ELSE ParseResult(FALSE, 0)

\* A float is held as an integer number of 10^-FracDigits units.
FracDigits == 3
FloatScale == Pow10(FracDigits)

DotPos(s) == IF \E i \in 1..Len(s) : s[i] = "."
             THEN CHOOSE i \in 1..Len(s) : s[i] = "." /\ \A j \in 1..(i - 1) : s[j] # "."
             ELSE 0

\* strconv.ParseFloat(s, 64) on decimal texts [sign] digits [. digits]
\* with at most FracDigits fraction digits
ParseFloat(s) ==
    IF s = <<>> THEN ParseResult(FALSE, 0)
    ELSE LET neg == s[1] = "-"
             body == IF s[1] \in {"+", "-"} THEN Tail(s) ELSE s
             p == DotPos(body)
             ip == IF p = 0 THEN body ELSE SubSeq(body, 1, p - 1)
             fp == IF p = 0 THEN <<>> ELSE SubSeq(body, p + 1, Len(body))
             ok == /\ AllDigits(ip) /\ AllDigits(fp)
                   /\ Len(ip) + Len(fp) > 0
                   /\ Len(fp) <= FracDigits
             mag == DigitsToNat(ip) * FloatScale
                    + DigitsToNat(fp) * Pow10(FracDigits - Len(fp))
         IN IF ok THEN ParseResult(TRUE, IF neg THEN 0 - mag ELSE mag)
            ELSE ParseResult(FALSE, 0)

(***************************************************************************)
(* Values.  A value is [t, s, n]: t is the Go kind ("nil" for a nil        *)
(* interface), s the text of a string, n the number (a bool is 1 or 0, a   *)
(* float is in 10^-FracDigits units, a struct or slice value is an opaque  *)
(* identity with 0 for the zero value).                                    *)
(***************************************************************************)
Val(t, s, n) == [t |-> t, s |-> s, n |-> n]
Nil == Val("nil", <<>>, 0)
StrV(s) == Val("string", s, 0)
BoolV(b) == Val("bool", <<>>, IF b THEN 1 ELSE 0)
Float64V(n) == Val("float64", <<>>, n)

\* reflect.Zero(type)
Zero(kind) == Val(kind, <<>>, 0)

SignedKinds == {"int", "int8", "int16", "int32", "int64"}
UnsignedKinds == {"uint", "uint8", "uint16", "uint32", "uint64"}
FloatKinds == {"float32", "float64"}

\* fmt.Sprintf("%v", v) for the values viper.Get returns: a string as it
\* is, a bool as true/false, a float64 in %g form (the numbers of the
\* model are below 10^6 in magnitude, where %g prints no exponent)
FormatV(v) ==
    CASE v.t = "string" -> v.s
      [] v.t = "bool" -> IF v.n = 1 THEN TxtTrue ELSE TxtFalse
      [] v.t = "float64" ->
           LET mag == IF v.n < 0 THEN 0 - v.n ELSE v.n
               ip == NatToDigits(mag \div FloatScale)
               fr == mag % FloatScale
               RECURSIVE Trim(_)
               Trim(ds) == IF ds # <<>> /\ ds[Len(ds)] = "0"
                           THEN Trim(SubSeq(ds, 1, Len(ds) - 1)) ELSE ds
               raw == NatToDigits(fr)
               padded == [i \in 1..FracDigits |->
                            IF i <= FracDigits - Len(raw) THEN "0"
                            ELSE raw[i - (FracDigits - Len(raw))]]
               body == IF fr = 0 THEN ip ELSE ip \o <<".">> \o Trim(padded)
           IN IF v.n < 0 THEN <<"-">> \o body ELSE body

(***************************************************************************)
(* Names.  viper lower-cases every key; ast.IsExported looks at the first  *)
(* letter of a field name.                                                 *)
(***************************************************************************)
ToLower(name) ==
    CASE name = "Config" -> "config"
      [] name = "Host" -> "host"
      [] name = "Port" -> "port"
      [] name = "TestBool" -> "testbool"
      [] name = "Environment" -> "environment"
      [] name = "Version" -> "version"
      [] name = "Secret" -> "secret"
      [] name = "Small" -> "small"
      [] name = "Mid" -> "mid"
      [] name = "Tags" -> "tags"
      [] name = "Last" -> "last"
      [] name = "Name" -> "name"
      [] name = "Debug" -> "debug"
      [] OTHER -> name

IsExported(name) == ToLower(name) # name

(***************************************************************************)
(* Maps (Go maps and viper's key tables) are functions on a set of names.  *)
(***************************************************************************)
EmptyMap == [k \in {} |-> Nil]
Put(m, k, v) == [x \in (DOMAIN m) \cup {k} |-> IF x = k THEN v ELSE m[x]]
Delete(m, k) == [x \in (DOMAIN m) \ {k} |-> m[x]]
Has(m, k) == k \in DOMAIN m

(***************************************************************************)
(* Record types: the struct types handed to Load.  A field is              *)
(* [name, kind, tag]; tag holds the four struct tags, an absent tag being  *)
(* the empty string, as reflect.StructTag.Get returns it.  The default tag *)
(* is a text, the other three are names.                                   *)
(***************************************************************************)
Field(name, kind, def, env, flag, file) ==
    [name |-> name, kind |-> kind,
     tag |-> [default |-> def, env |-> env, flag |-> flag, file |-> file]]

\* the tag of a field, and whether it is the empty string
TagGet(field, tagName) ==
    CASE tagName = "default" -> field.tag.default
      [] tagName = "env" -> field.tag.env
      [] tagName = "flag" -> field.tag.flag
      [] tagName = "file" -> field.tag.file
TagEmpty(field, tagName) ==
    IF tagName = "default" THEN field.tag.default = <<>>
    ELSE TagGet(field, tagName) = ""

\* the struct of the env and default tests, embedding Config
EnvConfig ==
    << Field("Config", "struct", <<>>, "", "", ""),
       Field("Host", "string", TxtDev, "APP_HOST", "", ""),
       Field("Port", "int", Txt3306, "APP_PORT", "", ""),
       Field("TestBool", "bool", TxtTrue, "APP_BOOL", "", "") >>

\* the struct of the config file tests, embedding Config
FileConfig ==
    << Field("Config", "struct", <<>>, "", "", ""),
       Field("Environment", "string", TxtDev, "", "", "env"),
       Field("Host", "uint32", Txt300, "", "", "host"),
       Field("Port", "int", Txt3306, "", "", "port"),
       Field("Version", "float32", Txt1p5, "", "", "version") >>

\* the struct of the package documentation: every source on every field
AppConfig ==
    << Field("Environment", "string", TxtDev, "APP_ENV", "env", "env"),
       Field("Port", "uint", Txt3306, "APP_PORT", "port", "port") >>

\* integer widths and a kind without a conversion
WidthConfig ==
    << Field("Small", "int8", Txt300, "APP_SMALL", "", ""),
       Field("Tags", "slice", TxtAbc, "", "", ""),
       Field("Last", "string", TxtDev, "", "", ""),
       Field("Mid", "int16", Txt7, "APP_MID", "", "mid") >>

\* an untagged field, an unexported field and a flag without default
PlainConfig ==
    << Field("Name", "string", <<>>, "", "", ""),
       Field("secret", "string", TxtAbc, "", "", ""),
       Field("Debug", "bool", <<>>, "", "debug", "") >>

RecordTypes == <<EnvConfig, FileConfig, AppConfig, WidthConfig, PlainConfig>>

HasNoTag(field) ==
    \A tagName \in {"default", "env", "flag", "file"} : TagEmpty(field, tagName)

FieldIdx(fields) == 1..Len(fields)
ZeroRecord(fields) == [i \in FieldIdx(fields) |-> Zero(fields[i].kind)]

(***************************************************************************)
(* The process environment, the file system and pflag.CommandLine.         *)
(***************************************************************************)
\* os.Getenv: "" for a variable that is not set
Getenv(environ, name) == IF Has(environ, name) THEN environ[name] ELSE <<>>

\* a configuration file: whether it exists, and its document (key -> value)
NoFile == [exists |-> FALSE, doc |-> EmptyMap]
FileOf(doc) == [exists |-> TRUE, doc |-> doc]

\* a flag of a pflag.FlagSet: the type of its Value, the text of the value
\* and whether the flag was set
Flag(kind, value, changed) == [kind |-> kind, value |-> value, changed |-> changed]

(***************************************************************************)
(* viper: the state of one *viper.Viper and the calls the package makes.   *)
(***************************************************************************)
\* viper.New()
viperNew ==
    [defaults |-> EmptyMap, env |-> EmptyMap, pflags |-> EmptyMap,
     aliases |-> EmptyMap, config |-> EmptyMap,
     configName |-> "config", configPaths |-> <<>>]

RECURSIVE realKey(_, _)
realKey(v, key) ==
    IF Has(v.aliases, key) THEN realKey(v, v.aliases[key]) ELSE key

\* (*Viper).SetDefault
SetDefault(v, key, value) ==
    [v EXCEPT !.defaults = Put(@, realKey(v, ToLower(key)), value)]

\* (*Viper).BindEnv(key, envkey)
BindEnv(v, key, envkey) == [v EXCEPT !.env = Put(@, ToLower(key), envkey)]

\* (*Viper).BindPFlag(key, flag); flag is the name of the flag in
\* pflag.CommandLine
BindPFlag(v, key, flag) == [v EXCEPT !.pflags = Put(@, ToLower(key), flag)]

MoveKey(m, from, to) == IF Has(m, from) THEN Put(Delete(m, from), to, m[from]) ELSE m

\* (*Viper).RegisterAlias(alias, key): an alias equal to its key is
\* refused; the values already stored under the alias move to the key
\* (the env and flag bindings do not)
RegisterAlias(v, alias, key) ==
    LET a == ToLower(alias)
        k == ToLower(key)
    IN IF a # k /\ a # realKey(v, k) /\ ~Has(v.aliases, a)
       THEN [v EXCEPT !.config = MoveKey(@, a, k),
                      !.defaults = MoveKey(@, a, k),
                      !.aliases = Put(@, a, k)]
       ELSE v

\* (*Viper).SetConfigName
SetConfigName(v, in) == IF in # "" THEN [v EXCEPT !.configName = in] ELSE v

\* (*Viper).AddConfigPath
AddConfigPath(v, in) ==
    IF in # "" /\ \A i \in 1..Len(v.configPaths) : v.configPaths[i] # in
    THEN [v EXCEPT !.configPaths = Append(@, in)]
    ELSE v

\* the file (*Viper).ReadInConfig finds: the file named configName in the
\* first search path that holds one
FindConfigFile(v, fs) ==
    LET hit == {i \in 1..Len(v.configPaths) :
                  /\ <<v.configPaths[i], v.configName>> \in DOMAIN fs
                  /\ fs[<<v.configPaths[i], v.configName>>].exists}
    IN IF hit = {} THEN NoFile
       ELSE fs[<<v.configPaths[CHOOSE i \in hit : \A j \in hit : i <= j],
                 v.configName>>]

\* (*Viper).ReadInConfig: a missing file leaves the store as it is
ReadInConfig(v, fs) ==
    LET f == FindConfigFile(v, fs)
    IN IF f.exists
       THEN [v EXCEPT !.config =
               [k \in {ToLower(x) : x \in DOMAIN f.doc} |->
                  f.doc[CHOOSE x \in DOMAIN f.doc : ToLower(x) = k]]]
       ELSE v

\* (*Viper).Get(key): flag (if changed), environment variable (if not
\* empty), config file, default, else nil
ViperGet(v, key, environ, cmdLine) ==
    LET k == realKey(v, ToLower(key))
    IN IF /\ Has(v.pflags, k) /\ Has(cmdLine, v.pflags[k])
          /\ cmdLine[v.pflags[k]].changed
       THEN StrV(cmdLine[v.pflags[k]].value)
       ELSE IF Has(v.env, k) /\ Getenv(environ, v.env[k]) # <<>>
       THEN StrV(Getenv(environ, v.env[k]))
       ELSE IF Has(v.config, k) THEN v.config[k]
       ELSE IF Has(v.defaults, k) THEN v.defaults[k]
       ELSE Nil

(***************************************************************************)
(* The package.  Errors are names: "nil" is the nil error, "ConvertError"  *)
(* the fmt.Errorf("Unable to convert value ...") of populateStructField,   *)
(* "panic" a run-time panic; field names the field or flag concerned.      *)
(***************************************************************************)
ErrNil == "nil"
ErrValueNotStruct == "ErrValueNotStruct"
ErrValueNotStructPointer == "ErrValueNotStructPointer"
ErrConvert == "ConvertError"
ErrPanic == "panic"
\* the error of the earlier populateStructField for a kind without a case
ErrUnsupportedFieldType == "ErrUnsupportedFieldType"

\* reflect.Value.SetInt / SetUint store the 64-bit number in the field's
\* width (the numbers of the model stay far below 2^31, so only the 8 and
\* 16 bit widths can wrap)
Pow2(bits) == IF bits = 8 THEN 256 ELSE 65536
BitSize(kind) ==
    CASE kind \in {"int8", "uint8"} -> 8
      [] kind \in {"int16", "uint16"} -> 16
      [] kind \in {"int32", "uint32"} -> 32
      [] OTHER -> 64
SetInt(kind, x) ==
    IF BitSize(kind) > 16 THEN x
    ELSE ((x + Pow2(BitSize(kind)) \div 2) % Pow2(BitSize(kind)))
         - Pow2(BitSize(kind)) \div 2
SetUint(kind, x) ==
    IF BitSize(kind) > 16 THEN x ELSE x % Pow2(BitSize(kind))

\* a variant that takes every field for unset
isZeroOfUnderlyingTypeAlways(x) == TRUE
isZeroOfUnderlyingType(x) == x = Zero(x.t)

\* the outcome of populateStructField: the error and the field's value
Populated(err, val) == [err |-> err, val |-> val]

\* reflect.Value.Interface panics on a value reached through an unexported
\* field
InterfaceOrPanic(field, fieldValue, newValue) ==
    IF ~IsExported(field.name) THEN Populated(ErrPanic, fieldValue)
    ELSE IF isZeroOfUnderlyingType(fieldValue) THEN Populated(ErrNil, newValue)
    ELSE Populated(ErrNil, fieldValue)

\* the switch has no default case: a kind without a case falls through to
\* the final return nil
\* (a variant with the default case of the earlier populateStructField)
noCaseForKindFails(fieldValue) == Populated(ErrUnsupportedFieldType, fieldValue)
noCaseForKind(fieldValue) == Populated(ErrNil, fieldValue)

populateStructField(field, fieldValue, value) ==
    LET kind == fieldValue.t
    IN CASE kind = "string" ->
              InterfaceOrPanic(field, fieldValue, StrV(value))
         [] kind = "bool" ->
              LET r == ParseBool(value)
              IN IF ~r.ok THEN Populated(ErrConvert, fieldValue)
                 ELSE InterfaceOrPanic(field, fieldValue, Val(kind, <<>>, r.v))
         [] kind \in {"float32", "float64"} ->
              LET r == ParseFloat(value)
              IN IF ~r.ok THEN Populated(ErrConvert, fieldValue)
                 ELSE InterfaceOrPanic(field, fieldValue, Val(kind, <<>>, r.v))
         [] kind \in {"int", "int8", "int32", "int64"} ->
              LET r == ParseInt(value)
              IN IF ~r.ok THEN Populated(ErrConvert, fieldValue)
                 ELSE InterfaceOrPanic(field, fieldValue,
                                       Val(kind, <<>>, SetInt(kind, r.v)))
         [] kind \in {"uint", "uint8", "uint32", "uint64"} ->
              LET r == ParseUint(value)
              IN IF ~r.ok THEN Populated(ErrConvert, fieldValue)
                 ELSE InterfaceOrPanic(field, fieldValue,
                                       Val(kind, <<>>, SetUint(kind, r.v)))
         [] OTHER -> noCaseForKind(fieldValue)

\* the outcome of a call: error, the field or flag it names, the record,
\* the viper instance and pflag.CommandLine after it
Outcome(err, field, rec, v, cmdLine) ==
    [err |-> err, field |-> field, rec |-> rec, viper |-> v, cmdLine |-> cmdLine]

\* if configValue != nil { err := populateStructField(...) }
\* (a variant without the test for nil)
populateIfResolvedAlways(field, fieldValue, configValue) ==
    populateStructField(field, fieldValue,
                        IF configValue = Nil THEN <<"<", "n", "i", "l", ">">>
                        ELSE FormatV(configValue))
populateIfResolved(field, fieldValue, configValue) ==
    IF configValue = Nil THEN Populated(ErrNil, fieldValue)
    ELSE populateStructField(field, fieldValue, FormatV(configValue))

\* if err != nil { return err }
\* (a variant that goes on with the next field)
returnsErrNever(err) == FALSE
returnsErr(err) == err # ErrNil

RECURSIVE populateFrom(_, _, _, _, _, _)
populateFrom(i, v, fields, rec, environ, cmdLine) ==
    IF i > Len(fields) THEN Outcome(ErrNil, "", rec, v, cmdLine)
    ELSE LET configValue == ViperGet(v, fields[i].name, environ, cmdLine)
             r == populateIfResolved(fields[i], rec[i], configValue)
             rec2 == [rec EXCEPT ![i] = r.val]
         IN IF returnsErr(r.err)
            THEN Outcome(r.err, fields[i].name, rec2, v, cmdLine)
            ELSE populateFrom(i + 1, v, fields, rec2, environ, cmdLine)

populateConfigStruct(v, fields, rec, environ, cmdLine, fs) ==
    populateFrom(1, ReadInConfig(v, fs), fields, rec, environ, cmdLine)

\* map from field name to parsedValue{tagValue, fieldType}
\* (a variant without the test ast.IsExported)
parseValuesForTagUnexported(fields, tagName) ==
    LET in == {i \in FieldIdx(fields) : ~TagEmpty(fields[i], tagName)}
    IN [n \in {fields[i].name : i \in in} |->
          LET i == CHOOSE j \in in : fields[j].name = n
          IN [tagValue |-> TagGet(fields[i], tagName),
              fieldType |-> fields[i].kind]]
parseValuesForTag(fields, tagName) ==
    LET in == {i \in FieldIdx(fields) :
                 ~TagEmpty(fields[i], tagName) /\ IsExported(fields[i].name)}
    IN [n \in {fields[i].name : i \in in} |->
          LET i == CHOOSE j \in in : fields[j].name = n
          IN [tagValue |-> TagGet(fields[i], tagName),
              fieldType |-> fields[i].kind]]

\* The range loops below visit a Go map in an unspecified order.  Except in
\* bindFlagValues, which can panic half way, the calls of one loop commute
\* (the keys of a record type are distinct), so one order is taken.
RECURSIVE populateDefaultsOver(_, _, _)
populateDefaultsOver(v, m, keys) ==
    IF keys = {} THEN v
    ELSE LET k == CHOOSE x \in keys : TRUE
         IN populateDefaultsOver(SetDefault(v, k, StrV(m[k].tagValue)), m, keys \ {k})
populateDefaults(v, defaultValues) ==
    populateDefaultsOver(v, defaultValues, DOMAIN defaultValues)

RECURSIVE bindEnvValuesOver(_, _, _)
bindEnvValuesOver(v, m, keys) ==
    IF keys = {} THEN v
    ELSE LET k == CHOOSE x \in keys : TRUE
         IN bindEnvValuesOver(BindEnv(v, k, m[k].tagValue), m, keys \ {k})
bindEnvValues(v, envValues) == bindEnvValuesOver(v, envValues, DOMAIN envValues)

\* pflag.String(v.tagValue, "", ""): a string flag with the empty string as
\* default, whatever v.fieldType is
\* (a variant that declares a flag of the kind of the field, with the zero
\* value of the kind as default)
DeclaredFlagOfKind(fieldType) ==
    CASE fieldType = "string" -> Flag("string", <<>>, FALSE)
      [] fieldType = "bool" -> Flag("bool", <<"f", "a", "l", "s", "e">>, FALSE)
      [] fieldType \in FloatKinds -> Flag("float64", <<"0">>, FALSE)
      [] fieldType \in SignedKinds \cup UnsignedKinds -> Flag("int64", <<"0">>, FALSE)
      [] OTHER -> Flag("string", <<>>, FALSE)
DeclaredFlag(fieldType) == Flag("string", <<>>, FALSE)

\* the declaration panics when the name is declared already
FlagRedefined(cmdLine, name) == Has(cmdLine, name)
FlagBound(panic, v, cmdLine) == [panic |-> panic, viper |-> v, cmdLine |-> cmdLine]

\* order: the order in which the range visits flagValues
RECURSIVE bindFlagValues(_, _, _, _)
bindFlagValues(v, flagValues, cmdLine, order) ==
    IF order = <<>> THEN FlagBound("", v, cmdLine)
    ELSE LET k == Head(order)
             name == flagValues[k].tagValue
         IN IF FlagRedefined(cmdLine, name) THEN FlagBound(name, v, cmdLine)
            ELSE bindFlagValues(BindPFlag(v, k, name), flagValues,
                                Put(cmdLine, name, DeclaredFlag(flagValues[k].fieldType)),
                                Tail(order))

RECURSIVE addConfigPaths(_, _)
addConfigPaths(v, paths) ==
    IF paths = <<>> THEN v
    ELSE addConfigPaths(AddConfigPath(v, Head(paths)), Tail(paths))

RECURSIVE registerAliasesOver(_, _, _)
registerAliasesOver(v, m, keys) ==
    IF keys = {} THEN v
    ELSE LET k == CHOOSE x \in keys : TRUE
         IN registerAliasesOver(RegisterAlias(v, k, m[k].tagValue), m, keys \ {k})

\* c is the Config: [FileName, FilePaths]
bindConfigFileValues(c, v, configValues) ==
    registerAliasesOver(addConfigPaths(SetConfigName(v, c.FileName), c.FilePaths),
                        configValues, DOMAIN configValues)

parseStructConfigValues(c, v, fields, rec, environ, cmdLine, fs, order) ==
    LET defaultValues == parseValuesForTag(fields, "default")
        envValues == parseValuesForTag(fields, "env")
        flagValues == parseValuesForTag(fields, "flag")
        configValues == parseValuesForTag(fields, "file")
        v1 == populateDefaults(v, defaultValues)
        v2 == bindEnvValues(v1, envValues)
        fb == bindFlagValues(v2, flagValues, cmdLine, order)
        v4 == bindConfigFileValues(c, fb.viper, configValues)
    IN IF fb.panic # "" THEN Outcome(ErrPanic, fb.panic, rec, fb.viper, fb.cmdLine)
       ELSE populateConfigStruct(v4, fields, rec, environ, fb.cmdLine, fs)

\* structRef, the argument of Load: its reflect kind and, for a pointer,
\* the kind of what it points to ("invalid" for a nil pointer)
Ref(kind, elem) == [kind |-> kind, elem |-> elem]

\* a variant that does not look at what the pointer points to
canLoadAnyPointer(structRef) ==
    IF structRef.kind # "ptr" THEN ErrValueNotStructPointer ELSE ErrNil
canLoad(structRef) ==
    IF structRef.kind # "ptr" THEN ErrValueNotStructPointer
    ELSE IF structRef.elem # "struct" THEN ErrValueNotStruct
    ELSE ErrNil

\* (*Config).Load; fields and rec are the type and value of the record
\* structRef points to
ConfigLoad(c, structRef, fields, rec, environ, cmdLine, fs, order) ==
    LET v == viperNew
        canLoadErr == canLoad(structRef)
    IN IF canLoadErr # ErrNil THEN Outcome(canLoadErr, "", rec, v, cmdLine)
       ELSE parseStructConfigValues(c, v, fields, rec, environ, cmdLine, fs, order)

(***************************************************************************)
(* The state machine: one record, loaded through one Config, in a process  *)
(* whose environment, configuration file and flags the caller prepares.    *)
(***************************************************************************)
VARIABLES
    recType,   \* index in RecordTypes of the record's struct type
    rec,       \* the record: the value of each field
    before,    \* the record as it was when the last call started
    cfg,       \* the Config: FileName and FilePaths
    viper,     \* the Config's viper instance (c.viper)
    environ,   \* the process environment
    fs,        \* the configuration files, by <<directory, base name>>
    cmdLine,   \* pflag.CommandLine: the flags declared so far
    ret,       \* the last operation and what it returned
    nLoads,    \* calls made so far
    nSetup,    \* preparations made so far
    loaders,   \* interleaved calls: the Config instances and their vipers
    calls      \* interleaved calls: where each call is and what it holds

vars == <<recType, rec, before, cfg, viper, environ, fs, cmdLine, ret, nLoads,
          nSetup, loaders, calls>>

Fields == RecordTypes[recType]

\* the Config of the init function of the package, and a zero Config
DefaultConfig == [FileName |-> "config", FilePaths |-> <<".">>]
ZeroConfig == [FileName |-> "", FilePaths |-> <<>>]

ConfigLoc == <<".", "config">>

\* what the caller writes
EnvTexts == {TxtOne, TxtAbc}
FileVals == {Float64V(7 * FloatScale), StrV(TxtProd)}
FlagTexts == {<<"4", "2">>}

\* a non-zero value of each kind, for the caller to assign
Preset(kind) ==
    CASE kind = "string" -> StrV(<<"x">>)
      [] kind = "bool" -> Val(kind, <<>>, 1)
      [] kind \in FloatKinds -> Val(kind, <<>>, (5 * FloatScale) \div 2)
      [] OTHER -> Val(kind, <<>>, 5)

EnvNames(fields) == {fields[i].tag.env : i \in FieldIdx(fields)} \ {""}
\* the keys the caller writes: the file tags of the type, and the names of
\* its untagged and of its unexported fields
FileKeys(fields) ==
    ({fields[i].tag.file : i \in FieldIdx(fields)} \ {""})
    \cup {ToLower(fields[i].name) : i \in
            {j \in FieldIdx(fields) :
               HasNoTag(fields[j]) \/ ~IsExported(fields[j].name)}}

\* the Config each record type is loaded through: the tests of the env and
\* default tags leave the embedded Config zero, the file tests and the
\* package documentation set FileName and FilePaths
ConfigOf(t) == IF RecordTypes[t] = EnvConfig THEN ZeroConfig ELSE DefaultConfig

\* the arguments Load is called with: a pointer to the record, the record
\* itself, a pointer to a slice, a nil pointer
Refs == {Ref("ptr", "struct"), Ref("struct", ""), Ref("ptr", "slice"),
         Ref("ptr", "invalid")}

RECURSIVE Perms(_)
Perms(S) ==
    IF S = {} THEN {<<>>}
    ELSE UNION {{<<x>> \o p : p \in Perms(S \ {x})} : x \in S}

NoRef == Ref("", "")
Result(op, arg, err, field) == [op |-> op, arg |-> arg, err |-> err, field |-> field]

Running == ret.err # ErrPanic

Init ==
    /\ recType \in 1..Len(RecordTypes)
    /\ rec = ZeroRecord(RecordTypes[recType])
    /\ before = rec
    /\ cfg = ConfigOf(recType)
    /\ viper = viperNew
    /\ environ = EmptyMap
    /\ fs = [l \in {ConfigLoc} |-> NoFile]
    /\ cmdLine = EmptyMap
    /\ ret = Result("none", NoRef, ErrNil, "")
    /\ nLoads = 0
    /\ nSetup = 0
    /\ loaders = EmptyMap
    /\ calls = EmptyMap

Prepared(op) ==
    /\ nSetup' = nSetup + 1
    /\ ret' = Result(op, NoRef, ErrNil, "")
    /\ UNCHANGED <<recType, cfg, viper, nLoads, loaders, calls>>

\* os.Setenv(name, text)
Setenv ==
    /\ Running /\ nSetup < MaxSetup
    /\ \E name \in EnvNames(Fields), text \in EnvTexts :
         environ' = Put(environ, name, text)
    /\ before' = rec
    /\ Prepared("Setenv")
    /\ UNCHANGED <<rec, fs, cmdLine>>

\* the caller writes key: val into the configuration file ./config.json
WriteConfig ==
    /\ Running /\ nSetup < MaxSetup
    /\ \E key \in FileKeys(Fields), val \in FileVals :
         fs' = [fs EXCEPT ![ConfigLoc] = FileOf(Put(@.doc, key, val))]
    /\ before' = rec
    /\ Prepared("WriteConfig")
    /\ UNCHANGED <<rec, environ, cmdLine>>

\* the caller assigns a field of the record
SetField ==
    /\ Running /\ nSetup < MaxSetup
    /\ \E i \in FieldIdx(Fields) :
         rec' = [rec EXCEPT ![i] = Preset(Fields[i].kind)]
    /\ before' = rec'
    /\ Prepared("SetField")
    /\ UNCHANGED <<environ, fs, cmdLine>>

\* flag.Value.Set(text); flag.Changed = true, on a declared flag
FlagSet ==
    /\ Running /\ nSetup < MaxSetup
    /\ \E name \in DOMAIN cmdLine, text \in FlagTexts :
         cmdLine' = Put(cmdLine, name, Flag(cmdLine[name].kind, text, TRUE))
    /\ before' = rec
    /\ Prepared("FlagSet")
    /\ UNCHANGED <<rec, environ, fs>>

\* c.Load(structRef)
Load ==
    /\ Running /\ nLoads < MaxLoads
    /\ \E structRef \in Refs :
       \E order \in IF canLoad(structRef) = ErrNil
                    THEN Perms(DOMAIN parseValuesForTag(Fields, "flag"))
                    ELSE {<<>>} :
         LET out == ConfigLoad(cfg, structRef, Fields, rec, environ, cmdLine, fs, order)
         IN /\ rec' = out.rec
            /\ viper' = out.viper
            /\ cmdLine' = out.cmdLine
            /\ ret' = Result("Load", structRef, out.err, out.field)
    /\ before' = rec
    /\ nLoads' = nLoads + 1
    /\ UNCHANGED <<recType, cfg, environ, fs, nSetup, loaders, calls>>

\* c.populateConfigStruct(structRef) called on its own, as the flag tests
\* of the package do after setting the flags
Populate ==
    /\ Running /\ nLoads < MaxLoads
    /\ LET out == populateConfigStruct(viper, Fields, rec, environ, cmdLine, fs)
       IN /\ rec' = out.rec
          /\ viper' = out.viper
          /\ ret' = Result("populateConfigStruct", Ref("ptr", "struct"), out.err, out.field)
    /\ before' = rec
    /\ nLoads' = nLoads + 1
    /\ UNCHANGED <<recType, cfg, environ, fs, cmdLine, nSetup, loaders, calls>>

Next == Setenv \/ WriteConfig \/ SetField \/ FlagSet \/ Load \/ Populate

Spec == Init /\ [][Next]_vars

(***************************************************************************)
(* Interleaved calls: two goroutines, each calling Load through its own    *)
(* Config on its own record.  A call advances one statement of Load,       *)
(* parseStructConfigValues and bindFlagValues at a time; pflag.String is   *)
(* split into the lookup and the insertion of FlagSet.AddFlag, which work  *)
(* on the map of pflag.CommandLine without a lock.  An unrecovered panic   *)
(* ends the process.                                                       *)
(***************************************************************************)
Callers == {1, 2}
ConcRefs == {Ref("ptr", "struct"), Ref("struct", "")}
ConcEnvirons == {EmptyMap, Put(EmptyMap, "APP_PORT", TxtOne)}
ConcFiles == {NoFile, FileOf(Put(EmptyMap, "port", Float64V(7 * FloatScale)))}

NotReturned == "none"
FatalMapWrites == "concurrent map writes"

\* defaultValues, envValues, flagValues and configValues of
\* parseStructConfigValues, before and after the four scans
NoValues == [default |-> EmptyMap, env |-> EmptyMap, flag |-> EmptyMap,
             file |-> EmptyMap]
ParsedValues(fields) ==
    [default |-> parseValuesForTag(fields, "default"),
     env |-> parseValuesForTag(fields, "env"),
     flag |-> parseValuesForTag(fields, "flag"),
     file |-> parseValuesForTag(fields, "file")]

\* a call: the Config it goes through, its argument, the record the
\* argument points to, the statement it is at, the maps of the scans, the
\* flagValues keys its range has not visited yet, and what it returned
Call(loader, t, structRef) ==
    [loader |-> loader, recType |-> t, arg |-> structRef,
     rec |-> ZeroRecord(RecordTypes[t]), pc |-> "Load", values |-> NoValues,
     todo |-> <<>>, err |-> NotReturned, field |-> ""]
Loader(t) == [cfg |-> ConfigOf(t), viper |-> viperNew]

FieldsOf(c) == RecordTypes[calls[c].recType]
ViperOf(c) == loaders[calls[c].loader].viper
FlagValuesOf(c) == parseValuesForTag(FieldsOf(c), "flag")
FlagNameOf(c) == calls[c].values.flag[Head(calls[c].todo)].tagValue

InitConc ==
    /\ recType = 1
    /\ rec = ZeroRecord(RecordTypes[recType])
    /\ before = rec
    /\ cfg = ConfigOf(recType)
    /\ viper = viperNew
    /\ ret = Result("none", NoRef, ErrNil, "")
    /\ nLoads = 0
    /\ nSetup = 0
    /\ environ \in ConcEnvirons
    /\ fs \in [{ConfigLoc} -> ConcFiles]
    /\ cmdLine = EmptyMap
    /\ \E types \in [Callers -> 1..Len(RecordTypes)], args \in [Callers -> ConcRefs] :
         /\ calls = [c \in Callers |-> Call(c, types[c], args[c])]
         /\ loaders = [c \in Callers |-> Loader(types[c])]

NoPanic == \A c \in Callers : calls[c].err # ErrPanic
At(c, pc) == NoPanic /\ calls[c].pc = pc

Goto(c, pc) == calls' = [calls EXCEPT ![c].pc = pc]
SetViper(c, v) == loaders' = [loaders EXCEPT ![calls[c].loader].viper = v]
Return(c, err, field) ==
    calls' = [calls EXCEPT ![c].pc = "done", ![c].err = err, ![c].field = field]
Sequential == UNCHANGED <<recType, rec, before, cfg, viper, environ, fs, ret,
                          nLoads, nSetup>>

\* c.viper = viper.New()
NewViper(c) ==
    /\ At(c, "Load")
    /\ SetViper(c, viperNew)
    /\ Goto(c, "canLoad")
    /\ UNCHANGED cmdLine /\ Sequential

\* canLoadErr := c.canLoad(structRef)
CanLoad(c) ==
    /\ At(c, "canLoad")
    /\ IF canLoad(calls[c].arg) # ErrNil
       THEN Return(c, canLoad(calls[c].arg), "")
       ELSE Goto(c, "parseValues")
    /\ UNCHANGED <<cmdLine, loaders>> /\ Sequential

\* defaultValues := parseDefaultValues(structRef) ... configValues :=
\* parseConfigFileValues(structRef)
ParseValues(c) ==
    /\ At(c, "parseValues")
    /\ calls' = [calls EXCEPT ![c].pc = "populateDefaults",
                              ![c].values = ParsedValues(FieldsOf(c))]
    /\ UNCHANGED <<cmdLine, loaders>> /\ Sequential

\* c.populateDefaults(defaultValues)
\* (a variant that registers nothing)
PopulateDefaultsSkipped(c) ==
    /\ At(c, "populateDefaults")
    /\ Goto(c, "bindEnvValues")
    /\ UNCHANGED <<cmdLine, loaders>> /\ Sequential
PopulateDefaults(c) ==
    /\ At(c, "populateDefaults")
    /\ SetViper(c, populateDefaults(ViperOf(c), calls[c].values.default))
    /\ Goto(c, "bindEnvValues")
    /\ UNCHANGED cmdLine /\ Sequential

\* c.bindEnvValues(envValues), and the order the range of bindFlagValues
\* will take
BindEnvValues(c) ==
    /\ At(c, "bindEnvValues")
    /\ SetViper(c, bindEnvValues(ViperOf(c), calls[c].values.env))
    /\ \E order \in Perms(DOMAIN calls[c].values.flag) :
         calls' = [calls EXCEPT ![c].pc = "range", ![c].todo = order]
    /\ UNCHANGED cmdLine /\ Sequential

\* pflag.String(v.tagValue, "", ""), first half: AddFlag looks the name up
\* in pflag.CommandLine and panics when it is there
PflagString(c) ==
    /\ At(c, "range") /\ calls[c].todo # <<>>
    /\ IF FlagRedefined(cmdLine, FlagNameOf(c))
       THEN Return(c, ErrPanic, FlagNameOf(c))
       ELSE Goto(c, "AddFlag")
    /\ UNCHANGED <<cmdLine, loaders>> /\ Sequential

\* pflag.String, second half: AddFlag inserts the flag
AddFlag(c) ==
    /\ At(c, "AddFlag")
    /\ cmdLine' = Put(cmdLine, FlagNameOf(c),
                       DeclaredFlag(calls[c].values.flag[Head(calls[c].todo)].fieldType))
    /\ Goto(c, "BindPFlag")
    /\ UNCHANGED loaders /\ Sequential

\* two goroutines insert into the same map at once: the runtime may stop
\* the process with a fatal error
MapWritesCollide(c) ==
    /\ At(c, "AddFlag")
    /\ \E d \in Callers \ {c} : calls[d].pc = "AddFlag"
    /\ Return(c, ErrPanic, FatalMapWrites)
    /\ UNCHANGED <<cmdLine, loaders>> /\ Sequential

\* flag := pflag.Lookup(v.tagValue); c.viper.BindPFlag(k, flag);
\* flagSet.AddFlag(flag)
BindPFlagStep(c) ==
    /\ At(c, "BindPFlag")
    /\ SetViper(c, BindPFlag(ViperOf(c), Head(calls[c].todo), FlagNameOf(c)))
    /\ calls' = [calls EXCEPT ![c].pc = "range", ![c].todo = Tail(@)]
    /\ UNCHANGED cmdLine /\ Sequential

\* c.bindConfigFileValues(configValues), after the range
BindConfigFileValues(c) ==
    /\ At(c, "range") /\ calls[c].todo = <<>>
    /\ SetViper(c, bindConfigFileValues(loaders[calls[c].loader].cfg, ViperOf(c),
                                        calls[c].values.file))
    /\ Goto(c, "populateConfigStruct")
    /\ UNCHANGED cmdLine /\ Sequential

\* return c.populateConfigStruct(structRef)
PopulateConfigStruct(c) ==
    /\ At(c, "populateConfigStruct")
    /\ LET out == populateConfigStruct(ViperOf(c), FieldsOf(c), calls[c].rec,
                                       environ, cmdLine, fs)
       IN /\ SetViper(c, out.viper)
          /\ calls' = [calls EXCEPT ![c].pc = "done", ![c].rec = out.rec,
                                    ![c].err = out.err, ![c].field = out.field]
    /\ UNCHANGED cmdLine /\ Sequential

NextConc ==
    \E c \in Callers :
       \/ NewViper(c)
       \/ CanLoad(c)
       \/ ParseValues(c)
       \/ PopulateDefaults(c)
       \/ BindEnvValues(c)
       \/ PflagString(c)
       \/ AddFlag(c)
       \/ MapWritesCollide(c)
       \/ BindPFlagStep(c)
       \/ BindConfigFileValues(c)
       \/ PopulateConfigStruct(c)

SpecConc == InitConc /\ [][NextConc]_vars

(***************************************************************************)
(* Interleaved calls through one Config: two goroutines call the free      *)
(* function Load, which hands each call to the package-level Config c, on  *)
(* two records.  The calls take the same steps as above; c.viper, which    *)
(* every step reads anew, is the one field of the shared Config.           *)
(***************************************************************************)
SharedLoader == 1

InitShared ==
    /\ recType = 1
    /\ rec = ZeroRecord(RecordTypes[recType])
    /\ before = rec
    /\ cfg = DefaultConfig
    /\ viper = viperNew
    /\ ret = Result("none", NoRef, ErrNil, "")
    /\ nLoads = 0
    /\ nSetup = 0
    /\ environ \in ConcEnvirons
    /\ fs \in [{ConfigLoc} -> ConcFiles]
    /\ cmdLine = EmptyMap
    /\ \E types \in [Callers -> 1..Len(RecordTypes)], args \in [Callers -> ConcRefs] :
         calls = [c \in Callers |-> Call(SharedLoader, types[c], args[c])]
    /\ loaders = [l \in {SharedLoader} |-> [cfg |-> DefaultConfig, viper |-> viperNew]]

SpecShared == InitShared /\ [][NextConc]_vars

(***************************************************************************)
(* The free functions: Load, SetFileName and SetFilePaths work on the      *)
(* package-level Config c, which init sets to FileName "config" and        *)
(* FilePaths ["."].  Here cfg is that Config and viper its c.viper.        *)
(***************************************************************************)
FileNames == {"config", "app"}
FilePathLists == {<<".">>, <<"etc">>, <<"etc", ".">>}
FileLocs == {<<".", "config">>, <<".", "app">>, <<"etc", "config">>, <<"etc", "app">>}

\* what the caller writes under the key env of the file at a location
EnvAt(loc) ==
    CASE loc = <<".", "config">> -> StrV(TxtDev)
      [] loc = <<".", "app">> -> StrV(TxtProd)
      [] loc = <<"etc", "config">> -> StrV(TxtAbc)
      [] OTHER -> StrV(TxtOne)

\* the record types the free Load is called with
PkgTypes == {t \in 1..Len(RecordTypes) : RecordTypes[t] \in {FileConfig, AppConfig}}
PkgRefs == {Ref("ptr", "struct"), Ref("struct", "")}

InitPkg ==
    /\ recType \in PkgTypes
    /\ rec = ZeroRecord(RecordTypes[recType])
    /\ before = rec
    /\ cfg = DefaultConfig
    /\ viper = viperNew
    /\ environ = EmptyMap
    /\ fs = [l \in FileLocs |-> NoFile]
    /\ cmdLine = EmptyMap
    /\ ret = Result("none", NoRef, ErrNil, "")
    /\ nLoads = 0
    /\ nSetup = 0
    /\ loaders = EmptyMap
    /\ calls = EmptyMap

PkgPrepared(op) ==
    /\ Running /\ nSetup < MaxSetup
    /\ nSetup' = nSetup + 1
    /\ ret' = Result(op, NoRef, ErrNil, "")
    /\ before' = rec
    /\ UNCHANGED <<recType, rec, viper, environ, cmdLine, nLoads, loaders, calls>>

\* configurator.SetFileName(fileName)
SetFileName ==
    /\ PkgPrepared("SetFileName")
    /\ \E fileName \in FileNames : cfg' = [cfg EXCEPT !.FileName = fileName]
    /\ UNCHANGED fs

\* configurator.SetFilePaths(filePaths)
SetFilePaths ==
    /\ PkgPrepared("SetFilePaths")
    /\ \E filePaths \in FilePathLists : cfg' = [cfg EXCEPT !.FilePaths = filePaths]
    /\ UNCHANGED fs

\* the caller writes a configuration file with the key env
WriteConfigAt ==
    /\ PkgPrepared("WriteConfig")
    /\ \E loc \in FileLocs :
         fs' = [fs EXCEPT ![loc] = FileOf(Put(EmptyMap, "env", EnvAt(loc)))]
    /\ UNCHANGED cfg

\* configurator.Load(structRef): return c.Load(structRef)
PkgLoad ==
    /\ Running /\ nLoads < MaxLoads
    /\ \E structRef \in PkgRefs :
       \E order \in IF canLoad(structRef) = ErrNil
                    THEN Perms(DOMAIN parseValuesForTag(Fields, "flag"))
                    ELSE {<<>>} :
         LET out == ConfigLoad(cfg, structRef, Fields, rec, environ, cmdLine, fs, order)
         IN /\ rec' = out.rec
            /\ viper' = out.viper
            /\ cmdLine' = out.cmdLine
            /\ ret' = Result("configurator.Load", structRef, out.err, out.field)
    /\ before' = rec
    /\ nLoads' = nLoads + 1
    /\ UNCHANGED <<recType, cfg, environ, fs, nSetup, loaders, calls>>

NextPkg == SetFileName \/ SetFilePaths \/ WriteConfigAt \/ PkgLoad

SpecPkg == InitPkg /\ [][NextPkg]_vars

(***************************************************************************)
(* Vocabulary of the properties.  In a state whose last operation is a     *)
(* Load, environ, fs and cfg are what the call saw, before is the record   *)
(* it was given, and viper and cmdLine are what it left behind.            *)
(***************************************************************************)
StructPtr == Ref("ptr", "struct")
LoadReturned == ret.op = "Load" /\ ret.arg = StructPtr
LoadOk == LoadReturned /\ ret.err = ErrNil

ConvertKinds == {"string", "bool"} \cup FloatKinds \cup SignedKinds \cup UnsignedKinds

\* whether the number n is a value of the integer kind
Fits(kind, n) ==
    CASE kind \in SignedKinds /\ BitSize(kind) <= 16 ->
           /\ n >= 0 - (Pow2(BitSize(kind)) \div 2)
           /\ n < Pow2(BitSize(kind)) \div 2
      [] kind \in UnsignedKinds /\ BitSize(kind) <= 16 ->
           n >= 0 /\ n < Pow2(BitSize(kind))
      [] kind \in UnsignedKinds -> n >= 0
      [] OTHER -> TRUE

\* whether the text is written as a value of the kind, and whether it
\* denotes one (an integer must also fit the kind's width)
Parses(kind, text) ==
    CASE kind = "string" -> TRUE
      [] kind = "bool" -> ParseBool(text).ok
      [] kind \in FloatKinds -> ParseFloat(text).ok
      [] kind \in SignedKinds -> ParseInt(text).ok
      [] kind \in UnsignedKinds -> ParseUint(text).ok
      [] OTHER -> FALSE
Convertible(kind, text) ==
    /\ Parses(kind, text)
    /\ kind \in SignedKinds => Fits(kind, ParseInt(text).v)
    /\ kind \in UnsignedKinds => Fits(kind, ParseUint(text).v)
Typed(kind, text) ==
    CASE kind = "string" -> StrV(text)
      [] kind = "bool" -> Val(kind, <<>>, ParseBool(text).v)
      [] kind \in FloatKinds -> Val(kind, <<>>, ParseFloat(text).v)
      [] kind \in SignedKinds -> Val(kind, <<>>, ParseInt(text).v)
      [] kind \in UnsignedKinds -> Val(kind, <<>>, ParseUint(text).v)

\* the configuration file the Config points to
SearchedFile ==
    LET name == IF cfg.FileName = "" THEN "config" ELSE cfg.FileName
        hit == {p \in 1..Len(cfg.FilePaths) :
                  /\ <<cfg.FilePaths[p], name>> \in DOMAIN fs
                  /\ fs[<<cfg.FilePaths[p], name>>].exists}
    IN IF hit = {} THEN NoFile
       ELSE fs[<<cfg.FilePaths[CHOOSE p \in hit : \A q \in hit : p <= q], name>>]

\* what each source supplies for field i
Tagged(i, tagName) == IsExported(Fields[i].name) /\ ~TagEmpty(Fields[i], tagName)
NumTags(i) == Cardinality({t \in {"default", "env", "flag", "file"} : Tagged(i, t)})
Overridden(i) == before[i] # Zero(Fields[i].kind)
FlagSupplied(i) ==
    /\ Tagged(i, "flag") /\ Has(cmdLine, Fields[i].tag.flag)
    /\ cmdLine[Fields[i].tag.flag].changed
EnvSupplied(i) == Tagged(i, "env") /\ Getenv(environ, Fields[i].tag.env) # <<>>
FileSupplied(i) == Tagged(i, "file") /\ Has(SearchedFile.doc, Fields[i].tag.file)
FileHasName(i) == Has(SearchedFile.doc, ToLower(Fields[i].name))
DefaultSupplied(i) == Tagged(i, "default")
Supplied(i) == FlagSupplied(i) \/ EnvSupplied(i) \/ FileSupplied(i) \/ DefaultSupplied(i)

\* the text of the highest-priority source below the override
WinnerText(i) ==
    IF FlagSupplied(i) THEN cmdLine[Fields[i].tag.flag].value
    ELSE IF EnvSupplied(i) THEN Getenv(environ, Fields[i].tag.env)
    ELSE IF FileSupplied(i) THEN FormatV(SearchedFile.doc[Fields[i].tag.file])
    ELSE Fields[i].tag.default

\* what the provider resolves for field i
Resolved(i) == ViperGet(viper, Fields[i].name, environ, cmdLine)
ResolvedText(i) == FormatV(Resolved(i))

(***************************************************************************)
(* C1.  Precedence law: after a successful Load every field with several   *)
(* sources holds the value of the highest-priority source that supplies    *)
(* one, in the order override > flag > environment variable > file key >   *)
(* default.                                                                *)
(***************************************************************************)
PrecedenceLaw ==
    LoadOk =>
      \A i \in FieldIdx(Fields) :
        NumTags(i) >= 2 =>
          IF Overridden(i) THEN rec[i] = before[i]
          ELSE (Supplied(i) /\ Convertible(Fields[i].kind, WinnerText(i)))
               => rec[i] = Typed(Fields[i].kind, WinnerText(i))

(***************************************************************************)
(* C2.  Override-preservation: a string, bool, integer, unsigned integer   *)
(* or float field that the caller set to a non-zero value holds that value *)
(* after a successful Load, whatever the sources supply.                   *)
(***************************************************************************)
OverridePreserved ==
    LoadOk =>
      \A i \in FieldIdx(Fields) :
        (Fields[i].kind \in ConvertKinds /\ Overridden(i)) => rec[i] = before[i]

\* a successful Load left a field at the caller's value although the
\* provider resolved another value for it
OverridePreservedWitness ==
    /\ LoadOk
    /\ \E i \in FieldIdx(Fields) :
         /\ Fields[i].kind \in ConvertKinds /\ Overridden(i)
         /\ Resolved(i) # Nil
         /\ Convertible(Fields[i].kind, ResolvedText(i))
         /\ Typed(Fields[i].kind, ResolvedText(i)) # before[i]
         /\ rec[i] = before[i]

(***************************************************************************)
(* C3.  Reference validation: Load with a non-pointer returns              *)
(* ErrValueNotStructPointer, Load with a pointer to something that is not  *)
(* a struct (a slice, a nil pointer) returns ErrValueNotStruct, and in     *)
(* both cases nothing is scanned, bound or written: the record, the        *)
(* declared flags and the fresh viper instance stay untouched.             *)
(***************************************************************************)
ReferenceValidation ==
    [][(nLoads' = nLoads + 1 /\ ret'.op = "Load" /\ ret'.arg # StructPtr) =>
         /\ ret'.err = IF ret'.arg.kind # "ptr" THEN ErrValueNotStructPointer
                       ELSE ErrValueNotStruct
         /\ rec' = rec
         /\ cmdLine' = cmdLine
         /\ viper' = viperNew]_vars

\* Load was given a pointer to a slice, in a process where a source
\* supplies a value, and returned ErrValueNotStruct
ReferenceValidationWitness ==
    /\ ret.op = "Load" /\ ret.arg = Ref("ptr", "slice")
    /\ ret.err = ErrValueNotStruct
    /\ \E i \in FieldIdx(Fields) : Supplied(i) /\ rec[i] = Zero(Fields[i].kind)

(***************************************************************************)
(* C4.  Invalid input aborts: when the text resolved for a field is not    *)
(* written as a value of the field's kind (abc for a number or a bool),    *)
(* Load returns the conversion error of the first such field and every     *)
(* later field keeps the value it had.                                     *)
(***************************************************************************)
Unconvertible(i) ==
    /\ Fields[i].kind \in ConvertKinds
    /\ Resolved(i) # Nil
    /\ ~Parses(Fields[i].kind, ResolvedText(i))

InvalidInputAborts ==
    (LoadReturned /\ ret.err # ErrPanic) =>
      \A i \in FieldIdx(Fields) :
        (Unconvertible(i) /\ \A j \in 1..(i - 1) : ~Unconvertible(j)) =>
          /\ ret.err = ErrConvert
          /\ ret.field = Fields[i].name
          /\ \A j \in (i + 1)..Len(Fields) : rec[j] = before[j]

(***************************************************************************)
(* C5.  Zero-value gap: a field that holds the zero value of its type when *)
(* Load is called is assigned the converted resolved value whenever the    *)
(* provider resolves a value for it.                                       *)
(***************************************************************************)
ZeroValueGap ==
    LoadOk =>
      \A i \in FieldIdx(Fields) :
        (/\ ~Overridden(i)
         /\ Resolved(i) # Nil
         /\ Convertible(Fields[i].kind, ResolvedText(i)))
        => rec[i] = Typed(Fields[i].kind, ResolvedText(i))

(***************************************************************************)
(* C6.  Default fallback: after a successful Load a zero-valued field with *)
(* a default tag, for which no environment variable is set, no flag has    *)
(* been set and no file key exists, holds its default converted to the     *)
(* field's type.                                                           *)
(***************************************************************************)
DefaultFallback ==
    LoadOk =>
      \A i \in FieldIdx(Fields) :
        (/\ DefaultSupplied(i) /\ ~Overridden(i)
         /\ ~EnvSupplied(i) /\ ~FlagSupplied(i)
         /\ ~FileSupplied(i) /\ ~FileHasName(i)
         /\ Convertible(Fields[i].kind, Fields[i].tag.default))
        => rec[i] = Typed(Fields[i].kind, Fields[i].tag.default)

(***************************************************************************)
(* C7.  File-key resolution: a zero-valued field with the tags file:"K"    *)
(* and default, loaded when the configuration file has a value under K     *)
(* (and neither flag nor environment variable supplies one), holds after a *)
(* successful Load the file's value converted to the field's type.         *)
(***************************************************************************)
FileKeyResolution ==
    LoadOk =>
      \A i \in FieldIdx(Fields) :
        (/\ FileSupplied(i) /\ DefaultSupplied(i) /\ ~Overridden(i)
         /\ ~EnvSupplied(i) /\ ~FlagSupplied(i)
         /\ Convertible(Fields[i].kind, FormatV(SearchedFile.doc[Fields[i].tag.file])))
        => rec[i] = Typed(Fields[i].kind, FormatV(SearchedFile.doc[Fields[i].tag.file]))

(***************************************************************************)
(* C8.  Unsupported field kind, as specified: when the provider resolves a *)
(* value for a field whose kind is none of string, bool, float, signed or  *)
(* unsigned integer, Load fails with the unsupported-field-kind error.     *)
(***************************************************************************)
UnsupportedKind(i) == Fields[i].kind \notin ConvertKinds

\* field i is reached: no field before it stops the loop
Reached(i) ==
    \A j \in 1..(i - 1) :
      Resolved(j) # Nil =>
        populateStructField(Fields[j], before[j], ResolvedText(j)).err = ErrNil

UnsupportedKindFails ==
    LoadReturned =>
      \A i \in FieldIdx(Fields) :
        (UnsupportedKind(i) /\ Resolved(i) # Nil /\ Reached(i))
        => ret.err = ErrUnsupportedFieldType

(***************************************************************************)
(* C8, as amended.  A field whose kind is none of string, bool, float,     *)
(* signed or unsigned integer never makes Load fail: Load leaves it as it  *)
(* was, reports no error for it and goes on with the fields after it.      *)
(***************************************************************************)
UnsupportedKindIgnored ==
    LoadReturned =>
      \A i \in FieldIdx(Fields) :
        UnsupportedKind(i) =>
          /\ rec[i] = before[i]
          /\ ret.field # Fields[i].name
          /\ (Resolved(i) # Nil /\ Reached(i)) =>
               \A j \in (i + 1)..Len(Fields) :
                 (j = i + 1 /\ Resolved(j) # Nil) =>
                   /\ rec[j] = populateStructField(Fields[j], before[j], ResolvedText(j)).val
                   /\ (ret.err # ErrNil => ret.field # Fields[i].name)

\* a successful Load resolved a value for a slice field, left the field
\* alone and populated the field after it
UnsupportedKindIgnoredWitness ==
    /\ LoadOk
    /\ \E i \in FieldIdx(Fields) :
         /\ UnsupportedKind(i) /\ Resolved(i) # Nil
         /\ rec[i] = before[i]
         /\ i < Len(Fields) /\ rec[i + 1] # before[i + 1]

(***************************************************************************)
(* C9.  Fresh provider state per call: nothing one Load registers exists   *)
(* in the provider state of a later Load, so a Load that follows a         *)
(* successful Load of the same record succeeds like the first one.         *)
(***************************************************************************)
FreshProviderState ==
    [][(/\ LoadOk
        /\ nLoads' = nLoads + 1 /\ ret'.op = "Load" /\ ret'.arg = StructPtr)
       => ret'.err = ErrNil]_vars

(***************************************************************************)
(* C10.  Concurrent Load calls on distinct records are safe: when two Load *)
(* calls, each through its own Config and on its own record, run           *)
(* interleaved, each record ends with the field values and each call       *)
(* returns the result of the two calls run one after the other, in one     *)
(* order or the other.                                                     *)
(***************************************************************************)
Finished == (\A c \in Callers : calls[c].pc = "done") \/ ~NoPanic

Ended(c) == [err |-> calls[c].err, rec |-> calls[c].rec]

\* what the calls return and leave in their records when first runs to its
\* end before second starts
OneAfterTheOther(first, second) ==
    LET flagsOf(c) == Perms(DOMAIN FlagValuesOf(c))
        load(c, flags, order) ==
            ConfigLoad(loaders[calls[c].loader].cfg, calls[c].arg, FieldsOf(c),
                       ZeroRecord(FieldsOf(c)), environ, flags, fs, order)
    IN UNION {
         LET out1 == load(first, EmptyMap, o1)
         IN IF out1.err = ErrPanic
            THEN {[c \in Callers |->
                     IF c = first THEN [err |-> out1.err, rec |-> out1.rec]
                     ELSE [err |-> NotReturned, rec |-> ZeroRecord(FieldsOf(c))]]}
            ELSE {LET out2 == load(second, out1.cmdLine, o2)
                  IN [c \in Callers |->
                        IF c = first THEN [err |-> out1.err, rec |-> out1.rec]
                        ELSE [err |-> out2.err, rec |-> out2.rec]]
                  : o2 \in flagsOf(second)}
         : o1 \in flagsOf(first)}

ConcurrentLoadsSafe ==
    Finished =>
      [c \in Callers |-> Ended(c)] \in
        UNION {OneAfterTheOther(p[1], p[2]) : p \in Perms(Callers)}

(***************************************************************************)
(* C11.  A missing configuration file is not an error: when no file with   *)
(* the configured base name exists in a search path, Load returns and      *)
(* leaves in the record exactly what it returns and leaves for the same    *)
(* record type without its file tags, and nothing is read from a file.     *)
(***************************************************************************)
StripFile(fields) ==
    [i \in DOMAIN fields |->
       Field(fields[i].name, fields[i].kind, fields[i].tag.default,
             fields[i].tag.env, fields[i].tag.flag, "")]

\* the Load of the same record, were its type declared without file tags
LoadWithoutFileTags ==
    ConfigLoad(cfg, StructPtr, StripFile(Fields), before, environ, EmptyMap, fs,
               CHOOSE o \in Perms(DOMAIN parseValuesForTag(Fields, "flag")) : TRUE)

MissingFileIsNoError ==
    (LoadReturned /\ ret.err # ErrPanic /\ ~SearchedFile.exists) =>
      /\ viper.config = EmptyMap
      /\ ret.err = LoadWithoutFileTags.err
      /\ rec = LoadWithoutFileTags.rec

(***************************************************************************)
(* C12.  Type round-trip: a zero-valued bool, integer, unsigned integer or *)
(* float field for which a flag, an environment variable or the default    *)
(* tag supplies the text of a value of the field's type (and the file      *)
(* supplies nothing) holds exactly that value after a successful Load.     *)
(***************************************************************************)
NumericKinds == {"bool"} \cup FloatKinds \cup SignedKinds \cup UnsignedKinds

\* the text of the highest-priority source among flag, environment variable
\* and default
SourceText(i) ==
    IF FlagSupplied(i) THEN cmdLine[Fields[i].tag.flag].value
    ELSE IF EnvSupplied(i) THEN Getenv(environ, Fields[i].tag.env)
    ELSE Fields[i].tag.default

TypeRoundTrip ==
    LoadOk =>
      \A i \in FieldIdx(Fields) :
        (/\ Fields[i].kind \in NumericKinds /\ ~Overridden(i)
         /\ (FlagSupplied(i) \/ EnvSupplied(i) \/ DefaultSupplied(i))
         /\ ~FileSupplied(i) /\ ~FileHasName(i)
         /\ Convertible(Fields[i].kind, SourceText(i)))
        => rec[i] = Typed(Fields[i].kind, SourceText(i))

(***************************************************************************)
(* C13.  Integer overflow is a coercion failure: when the text resolved    *)
(* for a zero-valued integer field is a base-10 integer that does not fit  *)
(* the field's width, and no earlier field stops the Load, Load returns    *)
(* the conversion error of that field and the field keeps its value.       *)
(***************************************************************************)
IntegerKinds == SignedKinds \cup UnsignedKinds

Overflows(i) ==
    /\ Fields[i].kind \in IntegerKinds
    /\ Resolved(i) # Nil
    /\ Parses(Fields[i].kind, ResolvedText(i))
    /\ ~Convertible(Fields[i].kind, ResolvedText(i))

OverflowFails ==
    (LoadReturned /\ ret.err # ErrPanic) =>
      \A i \in FieldIdx(Fields) :
        (Overflows(i) /\ Reached(i)) =>
          /\ ret.err = ErrConvert
          /\ ret.field = Fields[i].name
          /\ rec[i] = before[i]

(***************************************************************************)
(* C14.  Free-function loader: the package-level Config starts with the    *)
(* base name "config" and the search path ["."]; SetFileName changes the   *)
(* name only and SetFilePaths the paths only; and every free Load of a     *)
(* record hands the file provider the name and the paths set last.         *)
(***************************************************************************)
FreeFunctionLoader ==
    /\ cfg = DefaultConfig
    /\ [][/\ ret'.op = "SetFileName" => cfg'.FilePaths = cfg.FilePaths
          /\ ret'.op = "SetFilePaths" => cfg'.FileName = cfg.FileName
          /\ ret'.op \notin {"SetFileName", "SetFilePaths"} => cfg' = cfg
          /\ (ret'.op = "configurator.Load" /\ ret'.arg = StructPtr) =>
               /\ viper'.configName = cfg.FileName
               /\ viper'.configPaths = cfg.FilePaths]_vars

(***************************************************************************)
(* C15.  Populator order and first error: the fields are visited in        *)
(* declaration order; when field k is the first whose conversion returns   *)
(* an error, the call returns the error of field k, field k and the fields *)
(* after it keep their values, and every field before k holds what the     *)
(* conversion of its resolved value assigns (nothing is rolled back).      *)
(***************************************************************************)
PopulatorReturned ==
    /\ ret.op \in {"Load", "populateConfigStruct"}
    /\ ret.arg = StructPtr
    /\ ret.err # ErrPanic

FailsCoercion(i) ==
    /\ Resolved(i) # Nil
    /\ populateStructField(Fields[i], before[i], ResolvedText(i)).err = ErrConvert
FirstFailure(k) == FailsCoercion(k) /\ \A j \in 1..(k - 1) : ~FailsCoercion(j)

LowerKeys(m) == {ToLower(n) : n \in DOMAIN m}
CfgOf(c) == loaders[calls[c].loader].cfg

DefaultsDone(c) ==
    DOMAIN ViperOf(c).defaults =
      {realKey(ViperOf(c), k) : k \in LowerKeys(ParsedValues(FieldsOf(c)).default)}
EnvDone(c) == DOMAIN ViperOf(c).env = LowerKeys(ParsedValues(FieldsOf(c)).env)
FlagsDone(c) == DOMAIN ViperOf(c).pflags = LowerKeys(ParsedValues(FieldsOf(c)).flag)
FileDone(c) ==
    /\ ViperOf(c).configName = IF CfgOf(c).FileName = "" THEN "config"
                               ELSE CfgOf(c).FileName
    /\ ViperOf(c).configPaths = CfgOf(c).FilePaths
    /\ DOMAIN ViperOf(c).aliases =
         {ToLower(n) : n \in {m \in DOMAIN ParsedValues(FieldsOf(c)).file :
                                ToLower(m) # ParsedValues(FieldsOf(c)).file[m].tagValue}}

EnvStarted(c) == ViperOf(c).env # EmptyMap
FlagsStarted(c) ==
    ViperOf(c).pflags # EmptyMap \/ calls[c].pc \in {"AddFlag", "BindPFlag"}
FileStarted(c) == ViperOf(c).aliases # EmptyMap \/ ViperOf(c).configPaths # <<>>
PopulateStarted(c) ==
    \/ ViperOf(c).config # EmptyMap
    \/ calls[c].rec # ZeroRecord(FieldsOf(c))
    \/ calls[c].pc = "done" /\ calls[c].err \in {ErrNil, ErrConvert}

BinderOrder ==
    \A c \in Callers :
      /\ EnvStarted(c) => DefaultsDone(c)
      /\ FlagsStarted(c) => DefaultsDone(c) /\ EnvDone(c)
      /\ FileStarted(c) => DefaultsDone(c) /\ EnvDone(c) /\ FlagsDone(c)
      /\ PopulateStarted(c) =>
           DefaultsDone(c) /\ EnvDone(c) /\ FlagsDone(c) /\ FileDone(c)

\* a call with all four kinds of tags has read the file and written its
\* record
BinderOrderWitness ==
    \E c \in Callers :
      /\ ViperOf(c).config # EmptyMap
      /\ calls[c].rec # ZeroRecord(FieldsOf(c))
      /\ ViperOf(c).env # EmptyMap /\ ViperOf(c).pflags # EmptyMap
      /\ ViperOf(c).aliases # EmptyMap /\ ViperOf(c).defaults # EmptyMap

(***************************************************************************)
(* C17.  No value, no write: after Load, a field for which the provider    *)
(* resolves no value holds the value it held before, and is not the field  *)
(* an error names, whatever its kind.  Every field is looked up by its     *)
(* name, annotated or not: an exported field without any tag, unset        *)
(* before, takes the value the file holds under its lower-cased name.      *)
(***************************************************************************)
Unresolved(i) == Resolved(i) = Nil
LookedUpByName(i) ==
    /\ HasNoTag(Fields[i]) /\ IsExported(Fields[i].name)
    /\ Fields[i].kind \in ConvertKinds
    /\ FileHasName(i) /\ ~Overridden(i)

NoValueNoWrite ==
    /\ LoadReturned =>
         \A i \in FieldIdx(Fields) :
           Unresolved(i) => rec[i] = before[i] /\ ret.field # Fields[i].name
    /\ LoadOk =>
         \A i \in FieldIdx(Fields) :
           LookedUpByName(i) =>
             rec[i] = Typed(Fields[i].kind,
                            FormatV(SearchedFile.doc[ToLower(Fields[i].name)]))

\* a preset field without a value kept what it held, and an untagged field
\* was filled from the file
NoValueNoWriteWitness ==
    /\ LoadOk
    /\ \E i \in FieldIdx(Fields) :
         Unresolved(i) /\ Overridden(i) /\ ~HasNoTag(Fields[i])
    /\ \E j \in FieldIdx(Fields) : LookedUpByName(j) /\ rec[j] # before[j]

(***************************************************************************)
(* C18.  Flag typing, as specified: after Load, the flag declared for a    *)
(* field with a flag tag has the primitive kind of the field (string,      *)
(* bool, float or integer) and, until it is set, the zero value of that    *)
(* kind.                                                                   *)
(***************************************************************************)
FlagOf(i) == cmdLine[Fields[i].tag.flag]
FlagKindFor(kind) ==
    CASE kind = "string" -> "string"
      [] kind = "bool" -> "bool"
      [] kind \in FloatKinds -> "float64"
      [] kind \in SignedKinds \cup UnsignedKinds -> "int64"
      [] OTHER -> "none"
ZeroTextFor(kind) ==
    CASE kind = "string" -> <<>>
      [] kind = "bool" -> <<"f", "a", "l", "s", "e">>
      [] OTHER -> <<"0">>

FlagTypedByField ==
    LoadOk =>
      \A i \in FieldIdx(Fields) :
        Tagged(i, "flag") =>
          /\ Has(cmdLine, Fields[i].tag.flag)
          /\ FlagOf(i).kind = FlagKindFor(Fields[i].kind)
          /\ ~FlagOf(i).changed => FlagOf(i).value = ZeroTextFor(Fields[i].kind)

\* C18, as the code has it: after Load, the flag declared for a field with
\* a flag tag is a string flag whatever the kind of the field, and holds
\* the empty string until it is set.
FlagAlwaysString ==
    LoadOk =>
      \A i \in FieldIdx(Fields) :
        Tagged(i, "flag") =>
          /\ Has(cmdLine, Fields[i].tag.flag)
          /\ FlagOf(i).kind = "string"
          /\ ~FlagOf(i).changed => FlagOf(i).value = <<>>

\* Load declared a flag for a field that is not a string
FlagAlwaysStringWitness ==
    /\ LoadOk
    /\ \E i \in FieldIdx(Fields) :
         /\ Tagged(i, "flag") /\ Fields[i].kind # "string"
         /\ Has(cmdLine, Fields[i].tag.flag) /\ ~FlagOf(i).changed

(***************************************************************************)
(* C19.  Every integer width is coerced: for an unset field of any signed  *)
(* or unsigned integer kind with a resolved value, a text that is not a    *)
(* base-10 number makes Load fail, and when Load succeeds a text that      *)
(* fits the field has been parsed and assigned.                            *)
(***************************************************************************)
IntegerField(i) ==
    /\ Fields[i].kind \in IntegerKinds /\ IsExported(Fields[i].name)
    /\ ~Overridden(i) /\ Resolved(i) # Nil

EveryIntegerWidthCoerced ==
    LoadReturned =>
      \A i \in FieldIdx(Fields) :
        IntegerField(i) =>
          /\ ~Parses(Fields[i].kind, ResolvedText(i)) => ret.err # ErrNil
          /\ ret.err = ErrNil /\ Convertible(Fields[i].kind, ResolvedText(i)) =>
               rec[i] = Typed(Fields[i].kind, ResolvedText(i))

(***************************************************************************)
(* C20.  Annotation scan: the step that scans the record type of a call    *)
(* leaves, for each of the four tag names, a map that contains a field if  *)
(* and only if the field's tag of that name is not empty and the field is  *)
(* exported; the entry holds the tag value and the field's type; the step  *)
(* changes neither the record nor any provider nor the flags.              *)
(***************************************************************************)
TagNames == {"default", "env", "flag", "file"}
Annotated(fields, tagName) ==
    {i \in FieldIdx(fields) :
       TagGet(fields[i], tagName) # (IF tagName = "default" THEN <<>> ELSE "")
       /\ IsExported(fields[i].name)}
Scans(c) == calls[c].pc = "parseValues" /\ calls'[c].pc = "populateDefaults"

AnnotationScan ==
    [][\A c \in Callers :
         Scans(c) =>
           /\ \A tagName \in TagNames :
                /\ DOMAIN calls'[c].values[tagName] =
                     {FieldsOf(c)[i].name : i \in Annotated(FieldsOf(c), tagName)}
                /\ \A i \in Annotated(FieldsOf(c), tagName) :
                     calls'[c].values[tagName][FieldsOf(c)[i].name] =
                       [tagValue |-> TagGet(FieldsOf(c)[i], tagName),
                        fieldType |-> FieldsOf(c)[i].kind]
           /\ calls'[c].rec = calls[c].rec
           /\ loaders' = loaders /\ cmdLine' = cmdLine
           /\ environ' = environ /\ fs' = fs]_vars

\* the scan of a type with a tagged unexported field and a tagged exported
\* field has been made
AnnotationScanWitness ==
    \E c \in Callers :
      /\ calls[c].pc = "populateDefaults"
      /\ calls[c].values.flag # EmptyMap
      /\ \E i \in FieldIdx(FieldsOf(c)) :
           /\ ~IsExported(FieldsOf(c)[i].name)
           /\ ~TagEmpty(FieldsOf(c)[i], "default")
           /\ ~Has(calls[c].values.default, FieldsOf(c)[i].name)

(***************************************************************************)
(* C21.  Coercion is checked before the already-set rule: when a bool,     *)
(* float or integer field that the caller set to a non-zero value is       *)
(* reached and the text resolved for it does not parse as its kind, Load   *)
(* returns the conversion error for that field and the field keeps the     *)
(* value the caller gave it; a string field is never the field of a        *)
(* conversion error.                                                       *)
(***************************************************************************)
ParsedKinds == {"bool"} \cup FloatKinds \cup IntegerKinds
PresetUnparsable(i) ==
    /\ Fields[i].kind \in ParsedKinds /\ IsExported(Fields[i].name)
    /\ Overridden(i) /\ Resolved(i) # Nil
    /\ ~Parses(Fields[i].kind, ResolvedText(i))

CoercionBeforeAlreadySet ==
    (LoadReturned /\ ret.err # ErrPanic) =>
      \A i \in FieldIdx(Fields) :
        /\ (PresetUnparsable(i) /\ Reached(i)) =>
             /\ ret.err = ErrConvert
             /\ ret.field = Fields[i].name
             /\ rec[i] = before[i]
        /\ (Fields[i].kind = "string" /\ ret.err = ErrConvert) =>
             ret.field # Fields[i].name

(***************************************************************************)
(* C22.  Load is idempotent when the sources do not change: a Load that    *)
(* directly follows a successful Load of the same record, for a record     *)
(* type without flag tags, succeeds and leaves every field as it was.  And *)
(* no Load, whatever has changed before it, changes a field that holds a   *)
(* non-zero value.                                                         *)
(***************************************************************************)
NoFlagTags == \A i \in FieldIdx(Fields) : TagEmpty(Fields[i], "flag")
LoadStep == nLoads' = nLoads + 1 /\ ret'.op = "Load" /\ ret'.arg = StructPtr

LoadIdempotent ==
    [][/\ (LoadOk /\ NoFlagTags /\ LoadStep) => ret'.err = ErrNil /\ rec' = rec
       /\ LoadStep =>
            \A i \in FieldIdx(Fields) :
              rec[i] # Zero(Fields[i].kind) => rec'[i] = rec[i]]_vars

\* two Loads, one directly after the other and nothing else, have left a
\* record with fields that are set
LoadIdempotentWitness ==
    /\ LoadOk /\ NoFlagTags
    /\ nLoads = 2 /\ nSetup = 0
    /\ before = rec
    /\ \E i \in FieldIdx(Fields) : rec[i] # Zero(Fields[i].kind)

\* a field still holds the default the first Load gave it although the
\* environment, set between the two Loads, supplies another value
LaterLoadKeepsField ==
    /\ LoadOk /\ nLoads = 2
    /\ \E i \in FieldIdx(Fields) :
         /\ EnvSupplied(i) /\ Fields[i].kind \in {"string", "int"}
         /\ Parses(Fields[i].kind, Getenv(environ, Fields[i].tag.env))
         /\ rec[i] = Typed(Fields[i].kind, Fields[i].tag.default)
         /\ rec[i] # Typed(Fields[i].kind, Getenv(environ, Fields[i].tag.env))

(***************************************************************************)
(* C23.  Shared default loader under interleaving: when two calls of the   *)
(* free function Load run interleaved on two records, each record ends     *)
(* with the field values and each call returns the result of the two calls *)
(* run one after the other, in one order or the other.  Stated for record  *)
(* types without flag tags, whose calls declare no flag.                   *)
(***************************************************************************)
DeclaresNoFlag(c) == DOMAIN FlagValuesOf(c) = {}

SharedLoaderSafe ==
    (Finished /\ \A c \in Callers : DeclaresNoFlag(c)) =>
      [c \in Callers |-> Ended(c)] \in
        UNION {OneAfterTheOther(p[1], p[2]) : p \in Perms(Callers)}

(***************************************************************************)
(* C24.  A record that embeds Config, as specified: after Load, the        *)
(* embedded field (a struct field without tags) has resolved no value, is  *)
(* not the field of an error and holds what it held before, and FileName   *)
(* and FilePaths are as the caller set them.                               *)
(***************************************************************************)
Embedded(i) == Fields[i].kind = "struct" /\ HasNoTag(Fields[i])

EmbeddedConfigUnresolved ==
    LoadReturned =>
      /\ cfg = ConfigOf(recType)
      /\ \A i \in FieldIdx(Fields) :
           Embedded(i) =>
             /\ Unresolved(i)
             /\ ret.field # Fields[i].name
             /\ rec[i] = before[i]

\* C24, as the code has it: the embedded field resolves a value exactly
\* when the configuration file that is read has a key equal to the
\* lower-cased field name ("config"); with or without a value it is not
\* the field of an error and holds what it held before, and FileName and
\* FilePaths are as the caller set them.
EmbeddedConfigKept ==
    LoadReturned =>
      /\ cfg = ConfigOf(recType)
      /\ \A i \in FieldIdx(Fields) :
           Embedded(i) =>
             /\ Unresolved(i) <=> ~FileHasName(i)
             /\ ret.field # Fields[i].name
             /\ rec[i] = before[i]

\* a record that embeds Config was loaded from a file that has the key
\* "config", and Load filled other fields
EmbeddedConfigKeptWitness ==
    /\ LoadOk
    /\ rec # before
    /\ \E i \in FieldIdx(Fields) : Embedded(i) /\ ~Unresolved(i)

\* a record that embeds Config was loaded, the field resolving no value
EmbeddedConfigLoaded ==
    /\ LoadOk
    /\ rec # before
    /\ \E i \in FieldIdx(Fields) : Embedded(i) /\ Unresolved(i)

====
